---- MODULE Spec2Model ----
(***************************************************************************)
(* Document summarisation backend: src/app.py (OCR-enabled entry point,    *)
(* combined-prompt /summarize-and-notes) and src/sum.py (entry point with  *)
(* credential check, text form field and two-call /summarize-and-notes).   *)
(*                                                                         *)
(* Two string representations are used.                                    *)
(*  - Document text (what the extractors return, what is sliced and put    *)
(*    into a prompt) is a run-length encoded string: a sequence of runs    *)
(*    [c, n] with n > 0 and adjacent runs of different characters. The     *)
(*    characters are "w" (a whitespace character), "a" (a non-whitespace   *)
(*    character of the document), "o" (a non-whitespace character that     *)
(*    OCR recognised) and "h" (a character of a page header).  The run     *)
(*    lengths are real lengths, so 200, 8000 and 20000 keep their values.  *)
(*  - A gateway reply is a sequence of tokens: "w" (whitespace), "x" (an   *)
(*    ordinary character) and the literals the handler searches for,       *)
(*    each taken as one indivisible token: "C" = ---CHAPTER---,            *)
(*    "S" = ---SUMMARY---, "N" = ---NOTES---, "F" = the sentence           *)
(*    "Chapter not found in the document.".                                *)
(***************************************************************************)
EXTENDS Integers, Sequences, FiniteSets, TLC

\* ------------------------------------------------------------------ bounds
MaxPages == 2

MaxRawLen == 1

MaxContentLen == 4

MaxPartLen == 2

\* ------------------------------------------------------- program constants
OCR_MIN_CHARS == 200

TEXT_LIMIT == 8000

CHAPTER_TEXT_LIMIT == 20000

DEFAULT_WORD_COUNT == 300

\* ------------------------------------------- run-length encoded document text
Empty == <<>>

Run(c, n) == IF n = 0 THEN <<>> ELSE <<[c |-> c, n |-> n]>>

\* s + t
Cat(s, t) ==
  IF s = <<>> THEN t
  ELSE IF t = <<>> THEN s
  ELSE IF s[Len(s)].c = t[1].c
       THEN SubSeq(s, 1, Len(s) - 1)
              \o <<[c |-> t[1].c, n |-> s[Len(s)].n + t[1].n]>>
              \o Tail(t)
       ELSE s \o t

RECURSIVE TLen(_)
\* len(t)
TLen(t) == IF t = <<>> THEN 0 ELSE t[1].n + TLen(Tail(t))

RECURSIVE Take_tail(_, _)
\* Take keeping the last n characters, t[-n:], instead of the first.
Take_tail(t, n) ==
  IF t = <<>> \/ n <= 0 THEN <<>>
  ELSE IF TLen(t) <= n THEN t
  ELSE IF t[1].n > TLen(t) - n
    THEN <<[c |-> t[1].c, n |-> t[1].n - (TLen(t) - n)]>> \o Tail(t)
  ELSE Take_tail(Tail(t), n)

RECURSIVE Take(_, _)
\* t[:n]
Take(t, n) ==
  IF t = <<>> \/ n <= 0 THEN <<>>
  ELSE IF t[1].n >= n THEN <<[c |-> t[1].c, n |-> n]>>
       ELSE <<t[1]>> \o Take(Tail(t), n - t[1].n)

\* t.strip()
Strip(t) ==
  LET l == IF t # <<>> /\ t[1].c = "w" THEN Tail(t) ELSE t
  IN  IF l # <<>> /\ l[Len(l)].c = "w" THEN SubSeq(l, 1, Len(l) - 1) ELSE l

\* ------------------------------------------------ gateway reply (token string)
Tokens == {"w", "x", "F", "C", "S", "N"}

RECURSIVE StrUpTo(_, _)
StrUpTo(A, n) ==
  IF n = 0 THEN {<<>>}
  ELSE LET shorter == StrUpTo(A, n - 1)
       IN  shorter \cup {Append(s, a) : s \in {t \in shorter : Len(t) = n - 1}, a \in A}

Contains(s, tok) == \E i \in 1..Len(s) : s[i] = tok

IndexOf(s, tok) == CHOOSE i \in 1..Len(s) : s[i] = tok /\ \A j \in 1..(i - 1) : s[j] # tok

RECURSIVE split(_, _)
\* s.split(sep): the pieces between successive occurrences of sep
split(s, sep) ==
  IF ~Contains(s, sep) THEN <<s>>
  ELSE LET i == IndexOf(s, sep)
       IN  <<SubSeq(s, 1, i - 1)>> \o split(SubSeq(s, i + 1, Len(s)), sep)

RECURSIVE lstrip(_)
lstrip(s) == IF s # <<>> /\ s[1] = "w" THEN lstrip(Tail(s)) ELSE s

RECURSIVE rstrip(_)
rstrip(s) ==
  IF s # <<>> /\ s[Len(s)] = "w" THEN rstrip(SubSeq(s, 1, Len(s) - 1)) ELSE s

\* s.strip()
strip(s) == rstrip(lstrip(s))

\* The OUTPUT FORMAT block of the combined prompt, filled in.
combined_template(title, summary, notes) ==
  <<"C", "w">> \o title \o <<"w", "S", "w">> \o summary \o <<"w", "N", "w">> \o notes

\* The "Chapter not found" test of the combined handler.
chapter_not_found(content) == Contains(content, "F")

\* The test that all three sentinels are present.
has_all_sentinels(content) ==
  Contains(content, "C") /\ Contains(content, "S") /\ Contains(content, "N")

\* split_sections with the summary not cut at the NOTES sentinel.
split_sections_summary_to_end(content) ==
  [chapter |-> strip(split(split(content, "C")[2], "S")[1]),
   summary |-> strip(split(content, "S")[2]),
   notes   |-> strip(split(content, "N")[2])]

\* The sentinel split of the combined handler (taken when has_all_sentinels).
split_sections(content) ==
  [chapter |-> strip(split(split(content, "C")[2], "S")[1]),
   summary |-> strip(split(split(content, "S")[2], "N")[1]),
   notes   |-> strip(split(content, "N")[2])]

\* parse_content with the sentinel split tried before the not-found test.
parse_content_sentinels_first(rawReply) ==
  LET content == strip(rawReply)
  IN  IF has_all_sentinels(content)
        THEN [kind |-> "Parsed"] @@ split_sections(content)
      ELSE IF chapter_not_found(content)
        THEN [kind |-> "NotFound", chapter |-> <<>>, summary |-> <<>>, notes |-> <<>>]
      ELSE [kind |-> "Unstructured", chapter |-> <<>>, summary |-> content,
            notes |-> <<>>]

\* parse_content without the fallback assignment of the summary.
parse_content_no_fallback(rawReply) ==
  LET content == strip(rawReply)
  IN  IF chapter_not_found(content)
        THEN [kind |-> "NotFound", chapter |-> <<>>, summary |-> <<>>, notes |-> <<>>]
      ELSE IF has_all_sentinels(content)
        THEN [kind |-> "Parsed"] @@ split_sections(content)
      ELSE [kind |-> "Unstructured", chapter |-> <<>>, summary |-> <<>>,
            notes |-> <<>>]

\* What the combined handler makes of the gateway's reply `rawReply`.
parse_content(rawReply) ==
  LET content == strip(rawReply)
  IN  IF chapter_not_found(content)
        THEN [kind |-> "NotFound", chapter |-> <<>>, summary |-> <<>>, notes |-> <<>>]
      ELSE IF has_all_sentinels(content)
        THEN [kind |-> "Parsed"] @@ split_sections(content)
      ELSE [kind |-> "Unstructured", chapter |-> <<>>, summary |-> content,
            notes |-> <<>>]

\* ------------------------------------------------------------ uploaded files
RECURSIVE SeqUpTo(_, _)
SeqUpTo(A, n) ==
  IF n = 0 THEN {<<>>}
  ELSE LET shorter == SeqUpTo(A, n - 1)
       IN  shorter \cup {Append(s, a) : s \in {t \in shorter : Len(t) = n - 1}, a \in A}

\* str.lower() on one character of a file name
LowerChar(ch) ==
  CASE ch = "A" -> "a" [] ch = "P" -> "p" [] ch = "D" -> "d" [] ch = "F" -> "f"
    [] OTHER -> ch

\* name.lower()
Lower(name) == [i \in DOMAIN name |-> LowerChar(name[i])]

\* name.endswith(suffix)
EndsWith(name, suffix) ==
  /\ Len(name) >= Len(suffix)
  /\ SubSeq(name, Len(name) - Len(suffix) + 1, Len(name)) = suffix

DOT_PDF == <<".", "p", "d", "f">>

DOT_DOCX == <<".", "d", "o", "c", "x">>

DOT_TXT == <<".", "t", "x", "t">>

\* One part of a document as its library reads it: a PDF page, a DOCX
\* paragraph or the decoded content of a text file.
Part(raises, t) == [raises |-> raises, text |-> t]

PageTexts == {Empty, Run("a", OCR_MIN_CHARS - 1), Run("a", OCR_MIN_CHARS)}

PageOutcomes == {Part(TRUE, Empty)} \cup {Part(FALSE, t) : t \in PageTexts}

\* A document: `raises` is the reader failing when it opens the file.
Doc(raises, parts) == [raises |-> raises, parts |-> parts]

PdfDocs == {Doc(TRUE, <<>>)} \cup {Doc(FALSE, p) : p \in SeqUpTo(PageOutcomes, MaxPages)}

DocxDocs ==
  {Doc(TRUE, <<>>), Doc(FALSE, <<>>), Doc(FALSE, <<Part(FALSE, Run("a", OCR_MIN_CHARS))>>)}

\* `raises` of a text file: its bytes are not valid UTF-8.
BodyTexts ==
  {Empty, Run("w", 2), Cat(Run("w", 1), Run("a", TEXT_LIMIT)),
   Run("a", CHAPTER_TEXT_LIMIT + 1)}

TxtDocs == {Doc(u, <<Part(FALSE, t)>>) : u \in BOOLEAN, t \in BodyTexts}

Upload(name, doc) == [present |-> TRUE, name |-> name, doc |-> doc]

NoUpload == [present |-> FALSE, name |-> <<>>, doc |-> Doc(FALSE, <<>>)]

Uploads ==
  {Upload(n, d) : n \in {<<"a">> \o DOT_PDF, <<"A", ".", "P", "D", "F">>}, d \in PdfDocs}
    \cup {Upload(<<"a">> \o DOT_DOCX, d) : d \in DocxDocs}
    \cup {Upload(<<"a">> \o DOT_TXT, d) : d \in TxtDocs}
    \cup {Upload(<<"a", ".", "x", "y", "z">>, Doc(FALSE, <<>>)),
          Upload(<<"p", "d", "f">>, Doc(FALSE, <<>>))}

\* What the OCR tool chain does with the temporary PDF: `raises` is
\* convert_from_path failing, each part is one page image's recognition.
OcrPageOutcomes ==
  {Part(TRUE, Empty), Part(FALSE, Empty), Part(FALSE, Run("o", TEXT_LIMIT))}

OcrOutcomes ==
  {Doc(TRUE, <<>>)} \cup {Doc(FALSE, p) : p \in SeqUpTo(OcrPageOutcomes, MaxPages)}

\* ------------------------------------------------------- extraction results
\* tmp: "none" (no temporary file), "exists", "deleted".
Extracted(ok, t, err, tmpState, nOcr, ocrText) ==
  [ok |-> ok, text |-> t, err |-> err, tmp |-> tmpState, ocrCalls |-> nOcr,
   ocrOut |-> ocrText]

\* "\n--- Page {i} ---\n": a newline, the header line, a newline
PageHeader(i) ==
  Cat(Run("w", 1), Cat(Run("h", IF i < 10 THEN 14 ELSE 15), Run("w", 1)))

\* ---------------------------------------------------------- app.py extractors
RECURSIVE app_ocr_pages(_, _, _)
app_ocr_pages(images, i, acc) ==
  IF i > Len(images) THEN [ok |-> TRUE, text |-> acc]
  ELSE IF images[i].raises THEN [ok |-> FALSE, text |-> acc]
  ELSE app_ocr_pages(images, i + 1,
         Cat(acc, Cat(PageHeader(i), Cat(images[i].text, Run("w", 1)))))

app_extract_text_with_ocr(ocr) ==
  IF ocr.raises THEN [ok |-> FALSE, text |-> Empty]
  ELSE app_ocr_pages(ocr.parts, 1, Empty)

RECURSIVE app_pdf_pages(_, _, _)
app_pdf_pages(pages, i, acc) ==
  IF i > Len(pages) THEN [ok |-> TRUE, text |-> acc]
  ELSE IF pages[i].raises THEN [ok |-> FALSE, text |-> acc]
  ELSE app_pdf_pages(pages, i + 1,
         IF pages[i].text # Empty THEN Cat(acc, Cat(pages[i].text, Run("w", 1)))
         ELSE acc)

\* app_needs_ocr measuring the text without trimming it.
app_needs_ocr_unstripped(t) == TLen(t) < OCR_MIN_CHARS

\* The threshold test that sends a PDF to OCR.
app_needs_ocr(t) == TLen(Strip(t)) < OCR_MIN_CHARS

app_extract_text_from_pdf(doc, ocr) ==
  IF doc.raises THEN Extracted(FALSE, Empty, "PdfReadError", "exists", 0, Empty)
  ELSE LET primary == app_pdf_pages(doc.parts, 1, Empty)
       IN  IF ~primary.ok
             THEN Extracted(FALSE, Empty, "page extraction failed", "exists", 0, Empty)
           ELSE IF app_needs_ocr(primary.text)
             THEN LET o == app_extract_text_with_ocr(ocr)
                  IN  IF o.ok THEN Extracted(TRUE, o.text, "", "deleted", 1, o.text)
                      ELSE Extracted(FALSE, Empty, "OCR failed", "exists", 1, Empty)
           ELSE Extracted(TRUE, primary.text, "", "deleted", 0, Empty)

RECURSIVE JoinParas(_)
\* "\n".join(p.text for p in doc.paragraphs)
JoinParas(paras) ==
  IF paras = <<>> THEN Empty
  ELSE IF Len(paras) = 1 THEN paras[1].text
  ELSE Cat(paras[1].text, Cat(Run("w", 1), JoinParas(Tail(paras))))

app_extract_text_from_docx(doc) ==
  IF doc.raises THEN Extracted(FALSE, Empty, "PackageNotFoundError", "none", 0, Empty)
  ELSE Extracted(TRUE, JoinParas(doc.parts), "", "none", 0, Empty)

\* UTF-8, and Latin-1 when that fails; Latin-1 decodes any bytes.
app_extract_text_from_txt(doc) ==
  Extracted(TRUE, doc.parts[1].text, "", "none", 0, Empty)

app_get_text_from_file(file, ocr) ==
  IF ~file.present THEN Extracted(FALSE, Empty, "No file uploaded", "none", 0, Empty)
  ELSE LET name == Lower(file.name)
       IN  IF EndsWith(name, DOT_PDF) THEN app_extract_text_from_pdf(file.doc, ocr)
           ELSE IF EndsWith(name, DOT_DOCX) THEN app_extract_text_from_docx(file.doc)
           ELSE IF EndsWith(name, DOT_TXT) THEN app_extract_text_from_txt(file.doc)
           ELSE Extracted(FALSE, Empty, "Unsupported file type", "none", 0, Empty)

\* ---------------------------------------------------------- sum.py extractors
RECURSIVE sum_pdf_pages(_, _, _)
\* A page whose extraction raises is skipped; page numbers count every page.
sum_pdf_pages(pages, i, acc) ==
  IF i > Len(pages) THEN acc
  ELSE sum_pdf_pages(pages, i + 1,
         IF ~pages[i].raises /\ pages[i].text # Empty
           THEN Cat(acc, Cat(PageHeader(i), Cat(pages[i].text, Run("w", 1))))
         ELSE acc)

sum_extract_text_from_pdf(doc) ==
  IF doc.raises THEN Extracted(FALSE, Empty, "PDF parsing failed", "none", 0, Empty)
  ELSE LET t == sum_pdf_pages(doc.parts, 1, Empty)
       IN  IF Strip(t) = Empty
             THEN Extracted(FALSE, Empty, "PDF parsing failed", "none", 0, Empty)
           ELSE Extracted(TRUE, t, "", "none", 0, Empty)

RECURSIVE sum_docx_paras(_)
sum_docx_paras(paras) ==
  IF paras = <<>> THEN Empty
  ELSE Cat(paras[1].text, Cat(Run("w", 1), sum_docx_paras(Tail(paras))))

sum_extract_text_from_docx(doc) ==
  IF doc.raises THEN Extracted(FALSE, Empty, "DOCX parsing failed", "none", 0, Empty)
  ELSE LET t == sum_docx_paras(doc.parts)
       IN  IF Strip(t) = Empty
             THEN Extracted(FALSE, Empty, "DOCX parsing failed", "none", 0, Empty)
           ELSE Extracted(TRUE, t, "", "none", 0, Empty)

sum_extract_text_from_txt(doc) ==
  Extracted(TRUE, doc.parts[1].text, "", "none", 0, Empty)

\* ------------------------------------------------------ requests, responses
Endpoints == {"summarize", "create-notes", "summarize-and-notes"}

Chapters == {"", "ch1"}

\* The word_count form field: "absent", a decimal number, or not a number.
WordCounts == {"absent", "5", "abc"}

IsInt(wc) == wc \in {"absent", "5"}

\* int(request.form.get("word_count", 300))
IntOf(wc) == IF wc = "absent" THEN DEFAULT_WORD_COUNT ELSE 5

Request(ep, file, hasText, formText, chapter, wc) ==
  [endpoint |-> ep, file |-> file, hasText |-> hasText, formText |-> formText,
   chapter |-> chapter, wc |-> wc]

Requests ==
  {Request(ep, f, FALSE, Empty, ch, wc) :
     ep \in Endpoints, f \in Uploads \cup {NoUpload}, ch \in Chapters, wc \in WordCounts}
    \cup {Request(ep, NoUpload, TRUE, t, ch, wc) :
            ep \in Endpoints, t \in BodyTexts, ch \in Chapters, wc \in WordCounts}

NoRequest == Request("none", NoUpload, FALSE, Empty, "", "absent")

\* A JSON response: `has` is the set of keys of the body.
Json(status, has, success, error, chapter, summary, notes) ==
  [status |-> status, json |-> TRUE, has |-> has, success |-> success,
   error |-> error, chapter |-> chapter, summary |-> summary, notes |-> notes]

\* An exception that leaves the view function: the framework answers 500
\* with its own error page, not with a JSON body of the handler.
Uncaught(error) ==
  [status |-> 500, json |-> FALSE, has |-> {}, success |-> FALSE, error |-> error,
   chapter |-> <<>>, summary |-> <<>>, notes |-> <<>>]

Failure(status, error) ==
  Json(status, {"success", "error"}, FALSE, error, <<>>, <<>>, <<>>)

\* A 400 of sum.py; /summarize adds a "message" to it.
Rejected(error, withMessage) ==
  Json(400, {"success", "error"} \cup (IF withMessage THEN {"message"} ELSE {}), FALSE,
       error, <<>>, <<>>, <<>>)

NoResponse == Json(0, {}, FALSE, "", <<>>, <<>>, <<>>)

Prompt(kind, t, chapter, words) ==
  [kind |-> kind, text |-> t, chapter |-> chapter, word_count |-> words]

\* Groq(api_key=GROQ_API_KEY): with no key given and none in the environment
\* the client's constructor raises.
client_ok(key) == key

\* -------------------------------------------------------------------- state
VARIABLES
  app,       \* the entry point this process runs: "app" (app.py) or "sum" (sum.py)
  apiKey,    \* whether GROQ_API_KEY was set when the process started
  pc,        \* "idle", "received", "extracted", "awaiting", "awaiting2", "done"
  req,       \* the request being handled
  text,      \* the text as extracted, before any slice of it is taken
  tmp,       \* the request's temporary PDF file: "none", "exists", "deleted"
  ocrCalls,  \* calls of extract_text_with_ocr made for the request
  ocrOut,    \* what the OCR fallback returned
  sent,      \* the prompts sent to the gateway, in order
  replies,   \* the gateway's replies, in order
  log,       \* the request's events, in order
  resp,      \* the response
  triple,    \* parser check: the (title, summary, notes) to format
  reply,     \* parser check: the formatted reply
  parsed,    \* parser check: the parse of the reply
  ppc        \* parser check: "input", "formatted", "parsed"

vars == <<app, apiKey, pc, req, text, tmp, ocrCalls, ocrOut, sent, replies, log,
          resp, triple, reply, parsed, ppc>>

process == <<app, apiKey>>

parser == <<triple, reply, parsed, ppc>>

local == <<text, tmp, ocrCalls, ocrOut, sent, replies>>

NoTriple == [title |-> <<>>, summary |-> <<>>, notes |-> <<>>]

Fresh ==
  /\ req = NoRequest /\ text = Empty /\ tmp = "none" /\ ocrCalls = 0 /\ ocrOut = Empty
  /\ sent = <<>> /\ replies = <<>> /\ log = <<>> /\ resp = NoResponse

Init ==
  /\ app \in {"app", "sum"}
  /\ apiKey \in BOOLEAN
  /\ pc = "idle"
  /\ Fresh
  /\ triple = NoTriple /\ reply = <<>> /\ parsed = NoResponse /\ ppc = "idle"

\* ---------------------------------------------------------- shared steps
\* A request arrives.
Arrive(R) ==
  /\ pc = "idle"
  /\ \E r \in R : req' = r
  /\ pc' = "received"
  /\ log' = <<"received">>
  /\ UNCHANGED <<process, parser, local, resp>>

\* The response is out; the process waits for the next request.
Finish ==
  /\ pc = "done"
  /\ pc' = "idle"
  /\ req' = NoRequest /\ text' = Empty /\ tmp' = "none" /\ ocrCalls' = 0
  /\ ocrOut' = Empty /\ sent' = <<>> /\ replies' = <<>> /\ log' = <<>>
  /\ resp' = NoResponse
  /\ UNCHANGED <<process, parser>>

\* The handler ends with response r.
Respond(r) ==
  /\ pc' = "done"
  /\ resp' = r
  /\ log' = Append(log, "respond")

\* The same after the slice of the text has been taken.
RespondSliced(r) ==
  /\ pc' = "done"
  /\ resp' = r
  /\ log' = log \o <<"truncate", "respond">>

\* An exception: caught by the handler's try/except, or leaving the handler.
Raised(caught, error) == IF caught THEN Failure(500, error) ELSE Uncaught(error)

\* Call sending the prompt a second time.
Call_twice(p, next) ==
  /\ sent' = sent \o <<p, p>>
  /\ pc' = next
  /\ log' = log \o <<"gateway", "gateway">>
  /\ UNCHANGED resp

\* client.chat.completions.create(... prompt ...)
Call(p, next) ==
  /\ sent' = Append(sent, p)
  /\ pc' = next
  /\ log' = Append(log, "gateway")
  /\ UNCHANGED resp

\* The slice of the text, then the call.
SliceAndCall(p, next) ==
  /\ sent' = Append(sent, p)
  /\ pc' = next
  /\ log' = log \o <<"truncate", "gateway">>
  /\ UNCHANGED resp

\* ------------------------------------------------------------ app.py steps
\* get_text_from_file(), first statement of each app.py handler.
AppExtract(ep, caught) ==
  /\ pc = "received" /\ app = "app" /\ req.endpoint = ep
  /\ \E ocr \in OcrOutcomes :
       LET r == app_get_text_from_file(req.file, ocr)
       IN  /\ tmp' = r.tmp
           /\ ocrCalls' = r.ocrCalls
           /\ ocrOut' = r.ocrOut
           /\ IF r.ok
                THEN /\ text' = r.text
                     /\ pc' = "extracted"
                     /\ log' = Append(log, "extract")
                     /\ UNCHANGED resp
                ELSE /\ text' = text
                     /\ Respond(Raised(caught, r.err))
  /\ UNCHANGED <<process, parser, req, sent, replies>>

\* [:8000], the form fields, the prompt, the client and the gateway call.
AppPrompt(ep, kind, usesWordCount, needsChapter, caught) ==
  /\ pc = "extracted" /\ app = "app" /\ req.endpoint = ep
  /\ text' = text
  /\ IF usesWordCount /\ ~IsInt(req.wc)
       THEN /\ RespondSliced(Raised(caught, "ValueError")) /\ sent' = sent
     ELSE IF needsChapter /\ req.chapter = ""
       THEN /\ RespondSliced(Failure(400, "Chapter is required")) /\ sent' = sent
     ELSE IF ~client_ok(apiKey)
       THEN /\ RespondSliced(Raised(caught, "GroqError")) /\ sent' = sent
     ELSE SliceAndCall(Prompt(kind, Take(text, TEXT_LIMIT), req.chapter,
                      IF usesWordCount THEN IntOf(req.wc) ELSE 0), "awaiting")
  /\ UNCHANGED <<process, parser, req, tmp, ocrCalls, ocrOut, replies>>

app_summarize_extract == AppExtract("summarize", FALSE)

app_summarize_prompt == AppPrompt("summarize", "summary", TRUE, FALSE, FALSE)

app_summarize_return(R) ==
  /\ pc = "awaiting" /\ app = "app" /\ req.endpoint = "summarize"
  /\ \/ /\ Respond(Uncaught("APIError")) /\ replies' = replies
     \/ \E c \in R :
          /\ replies' = Append(replies, c)
          /\ Respond(Json(200, {"success", "summary"}, TRUE, "", <<>>, strip(c), <<>>))
  /\ UNCHANGED <<process, parser, req, text, tmp, ocrCalls, ocrOut, sent>>

app_create_notes_extract == AppExtract("create-notes", FALSE)

app_create_notes_prompt == AppPrompt("create-notes", "notes", FALSE, FALSE, FALSE)

app_create_notes_return(R) ==
  /\ pc = "awaiting" /\ app = "app" /\ req.endpoint = "create-notes"
  /\ \/ /\ Respond(Uncaught("APIError")) /\ replies' = replies
     \/ \E c \in R :
          /\ replies' = Append(replies, c)
          /\ Respond(Json(200, {"success", "notes"}, TRUE, "", <<>>, <<>>, strip(c)))
  /\ UNCHANGED <<process, parser, req, text, tmp, ocrCalls, ocrOut, sent>>

app_summarize_and_notes_extract == AppExtract("summarize-and-notes", TRUE)

app_summarize_and_notes_prompt ==
  AppPrompt("summarize-and-notes", "combined", TRUE, TRUE, TRUE)

\* The response the combined handler builds from the gateway's reply.
app_combined_response(c) ==
  LET p == parse_content(c)
  IN  IF p.kind = "NotFound" THEN Failure(404, "Chapter not found in the document")
      ELSE Json(200, {"success", "chapter", "summary", "notes"}, TRUE, "",
                p.chapter, p.summary, p.notes)

app_summarize_and_notes_return(R) ==
  /\ pc = "awaiting" /\ app = "app" /\ req.endpoint = "summarize-and-notes"
  /\ \/ /\ Respond(Failure(500, "APIError")) /\ replies' = replies
     \/ \E c \in R : /\ replies' = Append(replies, c) /\ Respond(app_combined_response(c))
  /\ UNCHANGED <<process, parser, req, text, tmp, ocrCalls, ocrOut, sent>>

\* ------------------------------------------------------------ sum.py steps
\* The handler up to and including text extraction: the credential check,
\* the form fields, and the text of the upload or of the text field.
SumExtract(ep, usesWordCount, withMessage) ==
  /\ pc = "received" /\ app = "sum" /\ req.endpoint = ep
  /\ IF ~apiKey
       THEN /\ Respond(Json(500, {"error"}, FALSE, "API key not configured",
                            <<>>, <<>>, <<>>))
            /\ text' = text
     ELSE IF usesWordCount /\ ~IsInt(req.wc)
       THEN /\ Respond(Failure(500, "ValueError")) /\ text' = text
     ELSE IF req.file.present
       THEN LET name == Lower(req.file.name)
                known == \/ EndsWith(name, DOT_PDF) \/ EndsWith(name, DOT_DOCX)
                         \/ EndsWith(name, DOT_TXT)
                r == IF EndsWith(name, DOT_PDF) THEN sum_extract_text_from_pdf(req.file.doc)
                     ELSE IF EndsWith(name, DOT_DOCX)
                       THEN sum_extract_text_from_docx(req.file.doc)
                     ELSE sum_extract_text_from_txt(req.file.doc)
            IN  IF ~known
                  THEN /\ Respond(Rejected("Unsupported file format", withMessage)) /\ text' = text
                ELSE IF ~r.ok THEN /\ Respond(Rejected(r.err, withMessage)) /\ text' = text
                ELSE /\ text' = r.text
                     /\ pc' = "extracted"
                     /\ log' = Append(log, "extract")
                     /\ UNCHANGED resp
     ELSE IF req.hasText
       THEN /\ text' = req.formText
            /\ pc' = "extracted"
            /\ log' = Append(log, "extract")
            /\ UNCHANGED resp
     ELSE /\ Respond(Rejected("No input provided", withMessage)) /\ text' = text
  /\ UNCHANGED <<process, parser, req, tmp, ocrCalls, ocrOut, sent, replies>>

\* text[:text_limit]
sum_text_limit(chapter) == IF chapter # "" THEN CHAPTER_TEXT_LIMIT ELSE TEXT_LIMIT

\* The empty-content check, the slice, the prompt and the (first) gateway call.
SumPrompt(ep, kind, usesWordCount, withMessage) ==
  /\ pc = "extracted" /\ app = "sum" /\ req.endpoint = ep
  /\ IF Strip(text) = Empty
       THEN /\ Respond(Rejected("Empty content", withMessage)) /\ text' = text /\ sent' = sent
     ELSE /\ text' = text
          /\ SliceAndCall(Prompt(kind, Take(text, sum_text_limit(req.chapter)), req.chapter,
                                 IF usesWordCount THEN IntOf(req.wc) ELSE 0), "awaiting")
  /\ UNCHANGED <<process, parser, req, tmp, ocrCalls, ocrOut, replies>>

sum_summarize_extract == SumExtract("summarize", TRUE, TRUE)

sum_summarize_prompt == SumPrompt("summarize", "summary", TRUE, TRUE)

sum_summarize_return(R) ==
  /\ pc = "awaiting" /\ app = "sum" /\ req.endpoint = "summarize"
  /\ \/ /\ Respond(Failure(500, "APIError")) /\ replies' = replies
     \/ \E c \in R :
          /\ replies' = Append(replies, c)
          /\ Respond(Json(200, {"success", "summary", "chapter", "word_count"}, TRUE, "",
                          <<>>, strip(c), <<>>))
  /\ UNCHANGED <<process, parser, req, text, tmp, ocrCalls, ocrOut, sent>>

sum_create_notes_extract == SumExtract("create-notes", FALSE, FALSE)

sum_create_notes_prompt == SumPrompt("create-notes", "notes", FALSE, FALSE)

sum_create_notes_return(R) ==
  /\ pc = "awaiting" /\ app = "sum" /\ req.endpoint = "create-notes"
  /\ \/ /\ Respond(Failure(500, "APIError")) /\ replies' = replies
     \/ \E c \in R :
          /\ replies' = Append(replies, c)
          /\ Respond(Json(200, {"success", "notes", "chapter"}, TRUE, "",
                          <<>>, <<>>, strip(c)))
  /\ UNCHANGED <<process, parser, req, text, tmp, ocrCalls, ocrOut, sent>>

sum_summarize_and_notes_extract == SumExtract("summarize-and-notes", TRUE, FALSE)

sum_summarize_and_notes_prompt == SumPrompt("summarize-and-notes", "summary", TRUE, FALSE)

\* The summary call returns; the notes prompt is built and sent.
sum_summarize_and_notes_summary(R) ==
  /\ pc = "awaiting" /\ app = "sum" /\ req.endpoint = "summarize-and-notes"
  /\ \/ /\ Respond(Failure(500, "APIError")) /\ replies' = replies /\ sent' = sent
     \/ \E c \in R :
          /\ replies' = Append(replies, c)
          /\ Call(Prompt("notes", sent[1].text, req.chapter, 0), "awaiting2")
  /\ UNCHANGED <<process, parser, req, text, tmp, ocrCalls, ocrOut>>

\* The notes call returns.
sum_summarize_and_notes_notes(R) ==
  /\ pc = "awaiting2" /\ app = "sum" /\ req.endpoint = "summarize-and-notes"
  /\ \/ /\ Respond(Failure(500, "APIError")) /\ replies' = replies
     \/ \E c \in R :
          /\ replies' = Append(replies, c)
          /\ Respond(Json(200, {"success", "summary", "notes", "chapter",
                                "summary_word_count"}, TRUE, "",
                          <<>>, strip(replies[1]), strip(c)))
  /\ UNCHANGED <<process, parser, req, text, tmp, ocrCalls, ocrOut, sent>>

\* ------------------------------------------------------------ specification
Replies == StrUpTo(Tokens, MaxRawLen)

Next ==
  \/ Arrive(Requests)
  \/ Finish
  \/ app_summarize_extract
  \/ app_summarize_prompt
  \/ app_summarize_return(Replies)
  \/ app_create_notes_extract
  \/ app_create_notes_prompt
  \/ app_create_notes_return(Replies)
  \/ app_summarize_and_notes_extract
  \/ app_summarize_and_notes_prompt
  \/ app_summarize_and_notes_return(Replies)
  \/ sum_summarize_extract
  \/ sum_summarize_prompt
  \/ sum_summarize_return(Replies)
  \/ sum_create_notes_extract
  \/ sum_create_notes_prompt
  \/ sum_create_notes_return(Replies)
  \/ sum_summarize_and_notes_extract
  \/ sum_summarize_and_notes_prompt
  \/ sum_summarize_and_notes_summary(Replies)
  \/ sum_summarize_and_notes_notes(Replies)

Spec == Init /\ [][Next]_vars

\* The combined-prompt endpoint of app.py alone, with longer gateway replies.
CombinedRequests == {r \in Requests : r.endpoint = "summarize-and-notes"}

Contents == StrUpTo(Tokens, MaxContentLen)

InitCombined == Init /\ app = "app"

NextCombined ==
  \/ Arrive(CombinedRequests)
  \/ Finish
  \/ app_summarize_and_notes_extract
  \/ app_summarize_and_notes_prompt
  \/ app_summarize_and_notes_return(Contents)

SpecCombined == InitCombined /\ [][NextCombined]_vars

\* The reply parser of the combined endpoint as a function: a triple is
\* written into the prompt's OUTPUT FORMAT and the result is parsed.
PartTokens == {"w", "x", "F", "S"}

Parts == StrUpTo(PartTokens, MaxPartLen)

Triples == [title : Parts, summary : Parts, notes : Parts]

InitParser ==
  /\ app = "app" /\ apiKey = TRUE /\ pc = "idle" /\ Fresh
  /\ triple \in Triples
  /\ reply = <<>> /\ parsed = NoResponse /\ ppc = "input"

Format ==
  /\ ppc = "input"
  /\ reply' = combined_template(triple.title, triple.summary, triple.notes)
  /\ ppc' = "formatted"
  /\ UNCHANGED <<process, pc, req, local, log, resp, triple, parsed>>

Parse ==
  /\ ppc = "formatted"
  /\ parsed' = app_combined_response(reply)
  /\ ppc' = "parsed"
  /\ UNCHANGED <<process, pc, req, local, log, resp, triple, reply>>

NextParser == Format \/ Parse

SpecParser == InitParser /\ [][NextParser]_vars

\* ------------------------------------------------------------------ claims
Combined == app = "app" /\ req.endpoint = "summarize-and-notes"

TwoCall == app = "sum" /\ req.endpoint = "summarize-and-notes"

Succeeded == pc = "done" /\ resp.json /\ resp.status = 200 /\ resp.success

IsPdf(file) == file.present /\ EndsWith(Lower(file.name), DOT_PDF)

Supported(file) ==
  \/ EndsWith(Lower(file.name), DOT_PDF)
  \/ EndsWith(Lower(file.name), DOT_DOCX)
  \/ EndsWith(Lower(file.name), DOT_TXT)

Spaces(n) == [k \in 1..n |-> "w"]

\* s is r without its leading and trailing whitespace.
IsTrimOf(s, r) ==
  /\ s = <<>> \/ (s[1] # "w" /\ s[Len(s)] # "w")
  /\ \E i \in 0..Len(r) : \E j \in 0..Len(r) : r = Spaces(i) \o s \o Spaces(j)

MissingSentinel(s) == ~Contains(s, "C") \/ ~Contains(s, "S") \/ ~Contains(s, "N")

SentinelFree(s) == ~Contains(s, "C") /\ ~Contains(s, "S") /\ ~Contains(s, "N")

\* C1: when a request that created a temporary PDF file has ended, by a
\* return or by an exception, the temporary file no longer exists.
C1_TempFileDeleted == pc = "done" => tmp # "exists"

\* C2: every request that ends in failure ends with a JSON body holding
\* success:false and an error string, under status 400, 404 or 500, and no
\* exception leaves the handler.
C2_FailuresEnveloped ==
  (pc = "done" /\ ~Succeeded) =>
    /\ resp.json
    /\ {"success", "error"} \subseteq resp.has
    /\ resp.success = FALSE
    /\ resp.status \in {400, 404, 500}

\* C3: a request whose uploaded file has none of the suffixes .pdf, .docx,
\* .txt ends with status 400 and an unsupported-format error, and no
\* gateway call is made.
C3_UnsupportedIs400 ==
  (pc = "done" /\ req.file.present /\ ~Supported(req.file)) =>
    /\ resp.status = 400
    /\ resp.error = "Unsupported file format"
    /\ sent = <<>>

\* C4: with no credential configured every request ends with status 500 and
\* the error "API key not configured", and no gateway call is made.
C4_NoKeyIs500 ==
  (pc = "done" /\ ~apiKey) =>
    /\ resp.status = 500
    /\ resp.error = "API key not configured"
    /\ sent = <<>>

\* C5: in the combined-prompt endpoint a gateway reply that contains the
\* not-found sentence ends the request with status 404 and success:false
\* and without summary, notes or chapter, whatever sentinels it also holds.
C5_NotFoundIs404 ==
  (Combined /\ pc = "done" /\ Len(replies) = 1 /\ Contains(replies[1], "F")) =>
    /\ resp.json
    /\ resp.status = 404
    /\ "success" \in resp.has /\ resp.success = FALSE
    /\ resp.has \cap {"summary", "notes", "chapter"} = {}

C5_Witness ==
  /\ Combined /\ pc = "done" /\ Len(replies) = 1
  /\ Contains(replies[1], "F") /\ ~MissingSentinel(replies[1])
  /\ resp.status = 404

\* C6: in the combined-prompt endpoint every request without a chapter ends
\* with status 400 and makes no gateway call, whatever its other inputs.
C6_NoChapterIs400 ==
  (Combined /\ pc = "done" /\ req.chapter = "") => (resp.status = 400 /\ sent = <<>>)

\* C7 as stated: a reply without the not-found sentence that lacks a
\* sentinel succeeds with the full raw reply as the summary and empty notes
\* and chapter title.
C7_FallbackKeepsRaw ==
  (Combined /\ pc = "done" /\ Len(replies) = 1 /\ ~Contains(replies[1], "F")
     /\ MissingSentinel(replies[1])) =>
    /\ Succeeded
    /\ resp.summary = replies[1]
    /\ resp.notes = <<>> /\ resp.chapter = <<>>

\* C7 as amended: a reply without the not-found sentence that lacks a
\* sentinel succeeds with the reply, trimmed of its surrounding whitespace,
\* as the summary and empty notes and chapter title.
C7_FallbackKeepsTrimmed ==
  (Combined /\ pc = "done" /\ Len(replies) = 1 /\ ~Contains(replies[1], "F")
     /\ MissingSentinel(replies[1])) =>
    /\ Succeeded
    /\ IsTrimOf(resp.summary, replies[1])
    /\ resp.notes = <<>> /\ resp.chapter = <<>>

C7_Witness ==
  /\ Combined /\ pc = "done" /\ Len(replies) = 1
  /\ Contains(replies[1], "C") /\ Contains(replies[1], "S") /\ ~Contains(replies[1], "N")
  /\ replies[1][1] = "w"
  /\ Succeeded /\ resp.summary = Tail(replies[1])

RoundTrips ==
  /\ parsed.json /\ parsed.status = 200 /\ parsed.success
  /\ IsTrimOf(parsed.chapter, triple.title)
  /\ IsTrimOf(parsed.summary, triple.summary)
  /\ IsTrimOf(parsed.notes, triple.notes)

\* C8 as stated: a triple whose components hold none of the three sentinels,
\* written into the combined template and parsed, comes back as the same
\* triple up to the trimming of surrounding whitespace.
C8_RoundTrip ==
  (ppc = "parsed" /\ SentinelFree(triple.title) /\ SentinelFree(triple.summary)
     /\ SentinelFree(triple.notes)) => RoundTrips

\* C8 as amended: a triple whose components hold none of the three sentinels
\* and not the not-found sentence, written into the combined template and
\* parsed, comes back as the same triple up to the trimming of surrounding
\* whitespace.
C8_RoundTripWithoutNotFound ==
  (ppc = "parsed" /\ SentinelFree(triple.title) /\ SentinelFree(triple.summary)
     /\ SentinelFree(triple.notes)
     /\ ~Contains(triple.title \o triple.summary \o triple.notes, "F")) => RoundTrips

C8_Witness ==
  /\ ppc = "parsed"
  /\ triple.title = <<"w">> /\ triple.summary = <<"x">> /\ triple.notes = <<"x">>
  /\ parsed.status = 200 /\ parsed.chapter = <<>> /\ parsed.summary = <<"x">>
  /\ parsed.notes = <<"x">>

\* C9: a successful request has made exactly one gateway call, or exactly
\* two (the summary prompt, then the notes prompt) in the two-call
\* /summarize-and-notes; every gateway call comes after the extraction and
\* the truncation of the text and before the response.
C9_GatewayCalls ==
  /\ Succeeded => Len(sent) = (IF TwoCall THEN 2 ELSE 1)
  /\ (Succeeded /\ TwoCall) => (sent[1].kind = "summary" /\ sent[2].kind = "notes")
  /\ \A i \in DOMAIN log :
       log[i] = "gateway" =>
         /\ \E j \in 1..(i - 1) : log[j] = "extract"
         /\ \E j \in 1..(i - 1) : log[j] = "truncate"
         /\ \A j \in 1..(i - 1) : log[j] # "respond"
  /\ Len(sent) = Cardinality({i \in DOMAIN log : log[i] = "gateway"})

C9_Witness ==
  /\ Succeeded /\ TwoCall /\ Len(sent) = 2
  /\ log = <<"received", "extract", "truncate", "gateway", "gateway", "respond">>

\* The text the per-page extraction of app.py yields for the request's PDF.
PrimaryOf(file) == app_pdf_pages(file.doc.parts, 1, Empty)

PrimaryDone ==
  /\ app = "app" /\ pc \notin {"idle", "received"}
  /\ IsPdf(req.file) /\ ~req.file.doc.raises /\ PrimaryOf(req.file).ok

\* C10: in app.py, for a PDF whose per-page extraction yields fewer than 200
\* characters after trimming the OCR fallback is called exactly once and, if
\* its output is not empty, the first 8000 characters of that output are the
\* text of the prompt sent to the gateway; for a PDF that yields 200 or more
\* the OCR fallback is not called.
C10_OcrFallback ==
  PrimaryDone =>
    LET primary == PrimaryOf(req.file).text
    IN  IF TLen(Strip(primary)) < OCR_MIN_CHARS
          THEN /\ ocrCalls = 1
               /\ (ocrOut # Empty /\ sent # <<>>) =>
                    \A i \in DOMAIN sent : sent[i].text = Take(ocrOut, TEXT_LIMIT)
          ELSE ocrCalls = 0

C10_Witness ==
  /\ PrimaryDone /\ sent # <<>>
  /\ TLen(PrimaryOf(req.file).text) = OCR_MIN_CHARS
  /\ ocrCalls = 1 /\ TLen(ocrOut) > TEXT_LIMIT
  /\ sent[1].text = Take(ocrOut, TEXT_LIMIT)
  /\ sent[1].text # PrimaryOf(req.file).text

HasExtracted == \E i \in DOMAIN log : log[i] = "extract"

\* C11: a request whose extracted (or directly supplied) text is blank ends
\* with status 400 and without a gateway call.
C11_BlankIs400 ==
  (pc = "done" /\ HasExtracted /\ Strip(text) = Empty) =>
    (resp.status = 400 /\ sent = <<>>)

\* p is t cut after some character.
PrefixOf(p, t) ==
  \/ p = <<>>
  \/ /\ Len(p) <= Len(t)
     /\ \A i \in 1..(Len(p) - 1) : p[i] = t[i]
     /\ p[Len(p)].c = t[Len(p)].c
     /\ p[Len(p)].n <= t[Len(p)].n

\* The cap on the text of a prompt: 20000 in sum.py when a chapter is given.
CapOf(entry, chapter) ==
  IF entry = "sum" /\ chapter # "" THEN CHAPTER_TEXT_LIMIT ELSE TEXT_LIMIT

\* C12: the text of every prompt sent to the gateway is a prefix of the
\* extracted text, of exactly min(len(text), N) characters, with N = 8000
\* when no chapter is given and N at most 20000 (8000 in app.py, 20000 in
\* sum.py) when one is.
C12_PromptTextIsPrefix ==
  \A i \in DOMAIN sent :
    /\ PrefixOf(sent[i].text, text)
    /\ TLen(sent[i].text) =
         (IF TLen(text) <= CapOf(app, req.chapter) THEN TLen(text)
          ELSE CapOf(app, req.chapter))
    /\ CapOf(app, req.chapter) <= CHAPTER_TEXT_LIMIT
    /\ req.chapter = "" => CapOf(app, req.chapter) = TEXT_LIMIT

C12_Witness ==
  /\ sent # <<>> /\ req.chapter = ""
  /\ TLen(text) = TEXT_LIMIT + 1 /\ text[1].c = "w"
  /\ TLen(sent[1].text) = TEXT_LIMIT /\ sent[1].text[1].c = "w"

FirstCSN(s) == <<IndexOf(s, "C"), IndexOf(s, "S"), IndexOf(s, "N")>>

\* C13: a reply (without the not-found sentence) that holds the three
\* sentinels is split into chapter title, summary and notes only if their
\* first occurrences come in the order CHAPTER, SUMMARY, NOTES, and then at
\* those first occurrences, each segment running to the next of them (the
\* notes to the end of the reply); with the sentinels in any other order the
\* whole reply is the summary and notes and chapter title are empty.
C13_SplitInOrderAtFirst ==
  (Combined /\ pc = "done" /\ Len(replies) = 1 /\ ~Contains(replies[1], "F")
     /\ ~MissingSentinel(replies[1])) =>
    LET r == replies[1]
        at == FirstCSN(r)
    IN  /\ Succeeded
        /\ IF at[1] < at[2] /\ at[2] < at[3]
             THEN /\ IsTrimOf(resp.chapter, SubSeq(r, at[1] + 1, at[2] - 1))
                  /\ IsTrimOf(resp.summary, SubSeq(r, at[2] + 1, at[3] - 1))
                  /\ IsTrimOf(resp.notes, SubSeq(r, at[3] + 1, Len(r)))
             ELSE /\ IsTrimOf(resp.summary, r)
                  /\ resp.notes = <<>> /\ resp.chapter = <<>>

====
